---- MODULE Spec2Model ----
(***************************************************************************)
(* Model of the gigconnect chat service: the message service               *)
(* (src/src/services/message.service.ts) and the request handlers that     *)
(* call it (src/src/controllers/create.ts, update.ts, get.ts).             *)
(*                                                                         *)
(* The Messages and Conversations collections are sequences in insertion   *)
(* order; a message's _id is its position.  Every request is a small       *)
(* process whose steps are the handler's await points.  The calls a        *)
(* request makes to the real-time notifier (socketIOChatObject.emit) and   *)
(* to the queue producer (publishDirectMessage) are recorded on the        *)
(* request, in order, as a test double would record them.                  *)
(*                                                                         *)
(* Fields of a message that no operation of the service reads or writes    *)
(* (body, file, gigId, buyerId, sellerId, pictures) are not carried.       *)
(***************************************************************************)
EXTENDS Integers, Sequences, FiniteSets, TLC

\* ---------------------------------------------------------------- bounds
MaxMsgs == 2
MaxTime == 2
MaxConvs == 1

Procs == {1}
Users == {"alice", "Bob", "carol"}
ConvIds == {"c1", "c2"}
\* conversationId, senderUsername, receiverUsername of the request bodies
Envelopes ==
    { <<"c1", "alice", "Bob">>, <<"c1", "carol", "alice">>,
      <<"c2", "Bob", "alice">> }
\* flag names a caller sends to PUT /offer ("type" of the request body)
FlagNames == {"accepted", "admin"}
\* the decision flags of an offer
AllowedFlags == {"accepted", "rejected", "completed"}
\* sender and receiver of GET /:senderUsername/:receiverUsername
QueryPairs == { <<"alice", "Bob">>, <<"Bob", "alice">> }
MsgIds == 1..(MaxMsgs + 1)
Times == 1..MaxTime

\* hist is the record a test keeps of a run: the store the run started from
\* and the call each request made
VARIABLES messages, conversations, req, hist

vars == <<messages, conversations, req, hist>>

\* ---------------------------------------------------------------- values
OfferOf(D, v) == [x \in D |-> v]

NoMessage ==
    [_id |-> 0, conversationId |-> "", senderUsername |-> "",
     receiverUsername |-> "", isRead |-> FALSE, hasOffer |-> FALSE,
     offer |-> OfferOf({}, FALSE), createdAt |-> 0]

NoArgs ==
    [messageId |-> 0, type |-> "", receiverUsername |-> "",
     senderUsername |-> "", username |-> "", conversationId |-> ""]

Idle ==
    [op |-> "idle", pc |-> "idle", data |-> NoMessage, args |-> NoArgs,
     message |-> NoMessage, matched |-> 0, emitted |-> <<>>,
     published |-> <<>>, status |-> "pending", error |-> "",
     result |-> NoMessage, list |-> <<>>]

\* String.prototype.toLowerCase on the usernames of the model
toLowerCase(s) == IF s = "Bob" THEN "bob" ELSE s

\* the call of a request as the record keeps it
NoCall ==
    [op |-> "none", messageId |-> 0, receiverUsername |-> "",
     senderUsername |-> "", document |-> NoMessage]

NoHistory == [store0 |-> <<>>, calls |-> <<>>]

Init ==
    /\ messages = <<>>
    /\ conversations = <<>>
    /\ req = [p \in Procs |-> Idle]
    /\ hist = NoHistory

Free(p) == req[p].pc = "idle"

\* ------------------------------------------------ Persistence Layer
Exists(msgs, messageId) == messageId \in 1..Len(msgs)

\* MessageModel.create(data): the stored document, with its generated _id
\* and its createdAt
NewDocument(msgs, data, now) ==
    [data EXCEPT !._id = Len(msgs) + 1, !.createdAt = now]

Create(msgs, data, now) == Append(msgs, NewDocument(msgs, data, now))

\* ConversationModel.create({conversationId, senderUsername, receiverUsername})
NewConversation(conversationId, senderUsername, receiverUsername) ==
    [conversationId |-> conversationId, senderUsername |-> senderUsername,
     receiverUsername |-> receiverUsername]

\* the unique index of the Conversations collection on conversationId: the
\* key a ConversationModel.create would duplicate
DuplicateKey(convs, conversationId) ==
    \E i \in 1..Len(convs) : convs[i].conversationId = conversationId

\* the whole offer replaced by the one flag
SetOfferFieldReplaces(m, type) == [m EXCEPT !.offer = [x \in {type} |-> TRUE]]

\* {$set: {[`offer.${type}`]: true}} on one document: the field path is
\* written verbatim, an absent field (or an absent offer) is created
SetOfferField(m, type) ==
    [m EXCEPT !.offer =
        [x \in (DOMAIN m.offer) \cup {type} |->
            IF x = type THEN TRUE ELSE m.offer[x]]]

\* isRead flipped instead of set
SetIsReadFlips(m) == [m EXCEPT !.isRead = ~m.isRead]

\* {$set: {isRead: true}} on one document
SetIsRead(m) == [m EXCEPT !.isRead = TRUE]

\* MessageModel.findOne({_id: messageId}): the document, or null
findOne(msgs, messageId) ==
    IF Exists(msgs, messageId) THEN msgs[messageId] ELSE NoMessage

\* ------------------------------------------------ Message Store queries
\* {$match: {conversationId: messageConversationId}}
MatchConversation(msgs, cid) ==
    SelectSeq(msgs, LAMBDA m : m.conversationId = cid)

RECURSIVE InsertByCreatedAt(_, _)
InsertByCreatedAt(sorted, m) ==
    IF sorted = <<>> THEN <<m>>
    ELSE IF Head(sorted).createdAt <= m.createdAt
         THEN <<Head(sorted)>> \o InsertByCreatedAt(Tail(sorted), m)
         ELSE <<m>> \o sorted

RECURSIVE SortAsc(_, _)
SortAsc(s, i) ==
    IF i = 0 THEN <<>> ELSE InsertByCreatedAt(SortAsc(s, i - 1), s[i])

\* the pipeline without its $sort stage: the documents in storage order
SortByCreatedAtSkipped(s) == s

\* {$sort: {createdAt: 1}}
SortByCreatedAt(s) == SortAsc(s, Len(s))

getUserMessages(msgs, messageConversationId) ==
    SortByCreatedAt(MatchConversation(msgs, messageConversationId))

\* {$or: [{senderUsername: sender, receiverUsername: receiver},
\*        {senderUsername: receiver, receiverUsername: sender}]}
MatchPair(docs, sender, receiver) ==
    SelectSeq(docs, LAMBDA d :
        \/ d.senderUsername = sender /\ d.receiverUsername = receiver
        \/ d.senderUsername = receiver /\ d.receiverUsername = sender)

getMessages(msgs, sender, receiver) ==
    SortByCreatedAt(MatchPair(msgs, sender, receiver))

getConversation(convs, sender, receiver) == MatchPair(convs, sender, receiver)

\* {$or: [{senderUsername: username}, {receiverUsername: username}]}
MatchUser(msgs, username) ==
    SelectSeq(msgs, LAMBDA m :
        m.senderUsername = username \/ m.receiverUsername = username)

\* the _id values of {$group: {_id: "$conversationId"}}, in the order in which
\* the groups first appear
RECURSIVE GroupKeys(_, _)
GroupKeys(s, i) ==
    IF i = 0 THEN <<>>
    ELSE LET keys == GroupKeys(s, i - 1)
         IN IF \E j \in 1..Len(keys) : keys[j] = s[i].conversationId
            THEN keys
            ELSE Append(keys, s[i].conversationId)

\* {$top: {output: "$$ROOT", sortBy: {createdAt: -1}}}: the first document of
\* the group among those with the greatest createdAt
RECURSIVE TopFrom(_, _)
TopFrom(group, i) ==
    IF i = 1 THEN group[1]
    ELSE LET best == TopFrom(group, i - 1)
         IN IF group[i].createdAt > best.createdAt THEN group[i] ELSE best

\* the document of the group that was stored last
TopLastStored(group) == group[Len(group)]

Top(group) == TopFrom(group, Len(group))

\* the $project stage: the fixed subset of the fields of the message
Project(m) ==
    [_id |-> m._id, conversationId |-> m.conversationId,
     receiverUsername |-> m.receiverUsername,
     senderUsername |-> m.senderUsername, isRead |-> m.isRead,
     hasOffer |-> m.hasOffer, createdAt |-> m.createdAt]

getUserConversationList(msgs, username) ==
    LET matched == MatchUser(msgs, username)
        keys == GroupKeys(matched, Len(matched))
    IN [k \in 1..Len(keys) |->
            Project(Top(MatchConversation(matched, keys[k])))]

\* ------------------------------------------------ Offer State Tracker
\* the update written as a toggle of the flag
updateOfferStoreToggles(msgs, messageId, type) ==
    IF Exists(msgs, messageId)
    THEN [msgs EXCEPT ![messageId] =
            [@ EXCEPT !.offer =
                [x \in (DOMAIN @) \cup {type} |->
                    IF x # type THEN @[x]
                    ELSE IF x \in DOMAIN @ THEN ~@[x] ELSE TRUE]]]
    ELSE msgs

\* the collection after MessageModel.findOneAndUpdate({_id: messageId},
\* {$set: {[`offer.${type}`]: true}}, {new: true})
updateOfferStore(msgs, messageId, type) ==
    IF Exists(msgs, messageId)
    THEN [msgs EXCEPT ![messageId] = SetOfferField(@, type)]
    ELSE msgs

\* what updateOffer returns: the updated document ({new: true}), or null
updateOffer(msgs, messageId, type) ==
    findOne(updateOfferStore(msgs, messageId, type), messageId)

\* the collection after MessageModel.findOneAndUpdate({_id: messageId},
\* {$set: {isRead: true}}, {new: true})
markMessageAsReadStore(msgs, messageId) ==
    IF Exists(msgs, messageId)
    THEN [msgs EXCEPT ![messageId] = SetIsRead(@)]
    ELSE msgs

\* what the findOneAndUpdate of markMessageAsRead returns
markMessageAsRead(msgs, messageId) ==
    findOne(markMessageAsReadStore(msgs, messageId), messageId)

\* the filter of the updateMany of markManyMessagesAsRead
UnreadFromTo(m, sender, receiver) ==
    /\ m.senderUsername = sender
    /\ m.receiverUsername = receiver
    /\ m.isRead = FALSE

\* the filter of the updateMany without its senderUsername
updateManyStoreAnySender(msgs, receiver, sender) ==
    [i \in 1..Len(msgs) |->
        IF msgs[i].receiverUsername = receiver /\ msgs[i].isRead = FALSE
        THEN SetIsRead(msgs[i]) ELSE msgs[i]]

\* the collection after MessageModel.updateMany(filter, {$set: {isRead: true}})
updateManyStore(msgs, receiver, sender) ==
    [i \in 1..Len(msgs) |->
        IF UnreadFromTo(msgs[i], sender, receiver)
        THEN SetIsRead(msgs[i]) ELSE msgs[i]]

\* what updateMany resolves to: the update report
updateManyResult(msgs, receiver, sender) ==
    LET n == Cardinality({i \in 1..Len(msgs) :
                            UnreadFromTo(msgs[i], sender, receiver)})
    IN [acknowledged |-> TRUE, matchedCount |-> n, modifiedCount |-> n]

\* if (updateResult): the report is an object, and an object is truthy
Truthy(updateResult) == TRUE


\* ------------------------------------------------ collaborators
\* socketIOChatObject.emit(event, payload): one call on the notifier, as the
\* request records it; delivery is best effort and reports nothing back
EmitCall(event, message, messageId, delivered) ==
    [event |-> event, message |-> message, messageId |-> messageId,
     delivered |-> delivered]

\* how the emit call ends for the caller: it returns, delivered or not
socketEmit(delivered) == "returned"

\* the emailMessageDetails of addMessage
EmailMessageDetails(data) ==
    [sender |-> data.senderUsername,
     buyerUsername |-> toLowerCase(data.receiverUsername),
     sellerUsername |-> toLowerCase(data.senderUsername),
     template |-> "offer"]

\* the publishDirectMessage call of addMessage
PublishCall(data, sent) ==
    [exchange |-> "gigconnect-order-exchange", routingKey |-> "order-email",
     payload |-> EmailMessageDetails(data),
     description |-> "Order email sent to notification service",
     sent |-> sent]

\* how the promise of publishDirectMessage settles: a failed publish is
\* caught and logged by the producer
publishDirectMessage(sent) == "resolved"

\* ------------------------------------------------ request bodies
\* req.body.offer of a create-message request
BodyOffer(hasOffer) ==
    IF hasOffer THEN OfferOf({"accepted"}, FALSE) ELSE OfferOf({}, FALSE)

\* messageData of the create-message handler
MessageData(env, isRead, hasOffer) ==
    [NoMessage EXCEPT !.conversationId = env[1], !.senderUsername = env[2],
                      !.receiverUsername = env[3], !.isRead = isRead,
                      !.hasOffer = hasOffer, !.offer = BodyOffer(hasOffer)]

Bodies ==
    {MessageData(env, isRead, hasOffer) :
        env \in Envelopes, isRead \in BOOLEAN, hasOffer \in BOOLEAN}

\* a handler's catch: next(error)
Failed(r, error) == [r EXCEPT !.pc = "done", !.status = "error", !.error = error]

\* a handler's res.status(StatusCodes.OK).json(...)
Responded(r) == [r EXCEPT !.pc = "done", !.status = "200"]

\* ------------------------------------------------ POST / (create.ts)
\* the rejection of createConversation swallowed: the handler goes on to
\* addMessage
ConflictRejectedGoesOn(r) == [r EXCEPT !.pc = "addMessage"]

\* ConversationModel.create rejects with the duplicate key: createConversation
\* has no catch, the handler's catch hands the error to next(error)
ConflictRejected(r) == Failed(r, "ConflictError")

\* the handler of a body with hasConversationId false, up to the end of
\* its createConversation call; createConversation makes no check of its
\* own, the store answers a conversationId it already holds with its
\* duplicate-key rejection.  MaxConvs bounds the fresh conversationIds.
messageCreateConversation(p, data) ==
    /\ Free(p)
    /\ \/ Len(conversations) < MaxConvs
       \/ DuplicateKey(conversations, data.conversationId)
    /\ Len(messages) < MaxMsgs
    /\ \E written \in BOOLEAN :
         IF ~written
         THEN /\ conversations' = conversations
              /\ req' = [req EXCEPT ![p] =
                    Failed([Idle EXCEPT !.op = "message"], "PersistenceError")]
         ELSE IF DuplicateKey(conversations, data.conversationId)
         THEN /\ conversations' = conversations
              /\ req' = [req EXCEPT ![p] =
                    ConflictRejected([Idle EXCEPT !.op = "message",
                                                  !.data = data])]
         ELSE /\ conversations' = Append(conversations,
                    NewConversation(data.conversationId, data.senderUsername,
                                    data.receiverUsername))
              /\ req' = [req EXCEPT ![p] =
                    [Idle EXCEPT !.op = "message", !.pc = "addMessage",
                                 !.data = data]]
    /\ UNCHANGED messages

\* the publish made for every message, offer or not
AfterCreateAlwaysPublish(data) == "publish"

\* addMessage after its create: if (data.hasOffer) the publish, else the emit
AfterCreate(data) == IF data.hasOffer THEN "publish" ELSE "emit"

\* the rejection of create caught inside addMessage, which then goes on
CreateRejectedGoesOn(r) == [r EXCEPT !.pc = "emit"]

\* MessageModel.create rejects: addMessage has no catch, the handler's has
CreateRejected(r) == Failed(r, "PersistenceError")

\* addMessage, first step: MessageModel.create(data)
addMessageCreated(p, data, now, written) ==
    IF written
    THEN /\ Len(messages) < MaxMsgs
         /\ messages' = Create(messages, data, now)
         /\ req' = [req EXCEPT ![p] =
               [Idle EXCEPT !.op = "message", !.data = data,
                            !.message = NewDocument(messages, data, now),
                            !.pc = AfterCreate(data)]]
    ELSE /\ messages' = messages
         /\ req' = [req EXCEPT ![p] =
               CreateRejected([Idle EXCEPT !.op = "message"])]

\* the handler of a body with hasConversationId true, up to the end of the
\* create of its addMessage call
messageAddMessage(p, data) ==
    /\ Free(p)
    /\ Len(messages) < MaxMsgs
    /\ \E now \in Times, written \in BOOLEAN :
          addMessageCreated(p, data, now, written)
    /\ UNCHANGED conversations

\* the addMessage call that follows createConversation, up to the end of its
\* create
addMessageCreate(p) ==
    /\ req[p].pc = "addMessage"
    /\ \E now \in Times, written \in BOOLEAN :
          addMessageCreated(p, req[p].data, now, written)
    /\ UNCHANGED conversations

\* addMessage, if (data.hasOffer): await publishDirectMessage(...)
addMessagePublish(p) ==
    /\ req[p].pc = "publish"
    /\ \E sent \in BOOLEAN :
         LET r == [req[p] EXCEPT
                     !.published = Append(@, PublishCall(req[p].data, sent))]
         IN req' = [req EXCEPT ![p] =
               IF publishDirectMessage(sent) = "resolved"
               THEN [r EXCEPT !.pc = "emit"]
               ELSE Failed(r, "NotificationDeliveryError")]
    /\ UNCHANGED <<messages, conversations>>

\* addMessage throwing when its emit was not delivered
addMessageReturnThrows(r, delivered) ==
    IF delivered THEN Responded([r EXCEPT !.result = r.message])
    ELSE Failed(r, "NotificationDeliveryError")

\* what addMessage hands back to the handler after its emit
addMessageReturn(r, delivered) == Responded([r EXCEPT !.result = r.message])

\* addMessage, socketIOChatObject.emit('message received', message); return
\* message; and the handler's response
addMessageEmit(p) ==
    /\ req[p].pc = "emit"
    /\ \E delivered \in BOOLEAN :
         LET r == [req[p] EXCEPT !.emitted = Append(@,
                     EmitCall("message received", req[p].message, 0, delivered))]
         IN req' = [req EXCEPT ![p] =
               IF socketEmit(delivered) = "returned"
               THEN addMessageReturn(r, delivered)
               ELSE Failed(r, "NotificationDeliveryError")]
    /\ UNCHANGED <<messages, conversations>>

\* ------------------------------------------------ PUT /offer (update.ts)
offer(p, messageId, type) ==
    /\ Free(p)
    /\ messages' = updateOfferStore(messages, messageId, type)
    /\ req' = [req EXCEPT ![p] =
          Responded([Idle EXCEPT !.op = "offer",
                       !.args = [NoArgs EXCEPT !.messageId = messageId,
                                               !.type = type],
                       !.result = updateOffer(messages, messageId, type)])]
    /\ UNCHANGED conversations

\* ------------------------------------------------ PUT /mark-as-read
\* markMessageAsRead, up to the end of its findOneAndUpdate
markSingleMessage(p, messageId) ==
    /\ Free(p)
    /\ messages' = markMessageAsReadStore(messages, messageId)
    /\ req' = [req EXCEPT ![p] =
          [Idle EXCEPT !.op = "markSingleMessage", !.pc = "emitUpdated",
                       !.args = [NoArgs EXCEPT !.messageId = messageId],
                       !.message = markMessageAsRead(messages, messageId)]]
    /\ UNCHANGED conversations

\* socketIOChatObject.emit('message updated', messageId); return message; and
\* the handler's response.  Ends markMessageAsRead and markManyMessagesAsRead.
emitUpdated(p) ==
    /\ req[p].pc = "emitUpdated"
    /\ \E delivered \in BOOLEAN :
         LET r == [req[p] EXCEPT !.emitted = Append(@,
                     EmitCall("message updated", NoMessage,
                              req[p].args.messageId, delivered))]
         IN req' = [req EXCEPT ![p] =
               IF socketEmit(delivered) = "returned"
               THEN Responded([r EXCEPT !.result = r.message])
               ELSE Failed(r, "NotificationDeliveryError")]
    /\ UNCHANGED <<messages, conversations>>

\* ------------------------------------------------ PUT /mark-multiple-as-read
\* markManyMessagesAsRead, up to the test of updateResult; of its arguments
\* only messageId is used after the updateMany
markMultipleMessages(p, receiver, sender, messageId) ==
    /\ Free(p)
    /\ messages' = updateManyStore(messages, receiver, sender)
    /\ LET updateResult == updateManyResult(messages, receiver, sender)
           r == [Idle EXCEPT !.op = "markMultipleMessages",
                    !.args = [NoArgs EXCEPT !.messageId = messageId],
                    !.matched = updateResult.matchedCount]
       IN req' = [req EXCEPT ![p] =
             IF Truthy(updateResult)
             THEN [r EXCEPT !.pc = "findOne"]
             ELSE Failed(r, "No messages were updated")]
    /\ UNCHANGED conversations

\* markManyMessagesAsRead: MessageModel.findOne({_id: messageId})
markManyFindOne(p) ==
    /\ req[p].pc = "findOne"
    /\ req' = [req EXCEPT ![p] =
          [req[p] EXCEPT !.pc = "emitUpdated",
                         !.message = findOne(messages, req[p].args.messageId)]]
    /\ UNCHANGED <<messages, conversations>>

\* ------------------------------------------------ GET handlers (get.ts)
userMessages(p, conversationId) ==
    /\ Free(p)
    /\ req' = [req EXCEPT ![p] =
          Responded([Idle EXCEPT !.op = "userMessages",
                       !.args = [NoArgs EXCEPT !.conversationId = conversationId],
                       !.list = getUserMessages(messages, conversationId)])]
    /\ UNCHANGED <<messages, conversations>>

conversationList(p, username) ==
    /\ Free(p)
    /\ req' = [req EXCEPT ![p] =
          Responded([Idle EXCEPT !.op = "conversationList",
                       !.args = [NoArgs EXCEPT !.username = username],
                       !.list = getUserConversationList(messages, username)])]
    /\ UNCHANGED <<messages, conversations>>

messagesBetween(p, sender, receiver) ==
    /\ Free(p)
    /\ req' = [req EXCEPT ![p] =
          Responded([Idle EXCEPT !.op = "messages",
                       !.args = [NoArgs EXCEPT !.senderUsername = sender,
                                               !.receiverUsername = receiver],
                       !.list = getMessages(messages, sender, receiver)])]
    /\ UNCHANGED <<messages, conversations>>

conversation(p, sender, receiver) ==
    /\ Free(p)
    /\ req' = [req EXCEPT ![p] =
          Responded([Idle EXCEPT !.op = "conversation",
                       !.args = [NoArgs EXCEPT !.senderUsername = sender,
                                               !.receiverUsername = receiver],
                       !.list = getConversation(conversations, sender, receiver)])]
    /\ UNCHANGED <<messages, conversations>>

\* the response is out: the request is over
respond(p) ==
    /\ req[p].pc = "done"
    /\ req' = [req EXCEPT ![p] = Idle]
    /\ UNCHANGED <<messages, conversations>>

\* ------------------------------------------------ specification
Next ==
    \/ \E p \in DOMAIN req, data \in Bodies : messageCreateConversation(p, data)
          /\ UNCHANGED hist
    \/ \E p \in DOMAIN req, data \in Bodies : messageAddMessage(p, data)
          /\ UNCHANGED hist
    \/ \E p \in DOMAIN req : addMessageCreate(p) /\ UNCHANGED hist
    \/ \E p \in DOMAIN req : addMessagePublish(p) /\ UNCHANGED hist
    \/ \E p \in DOMAIN req : addMessageEmit(p) /\ UNCHANGED hist
    \/ \E p \in DOMAIN req, messageId \in MsgIds, type \in FlagNames :
          offer(p, messageId, type) /\ UNCHANGED hist
    \/ \E p \in DOMAIN req, messageId \in MsgIds : markSingleMessage(p, messageId)
          /\ UNCHANGED hist
    \/ \E p \in DOMAIN req : emitUpdated(p) /\ UNCHANGED hist
    \/ \E p \in DOMAIN req, env \in Envelopes, messageId \in MsgIds :
          markMultipleMessages(p, env[3], env[2], messageId)
          /\ UNCHANGED hist
    \/ \E p \in DOMAIN req : markManyFindOne(p) /\ UNCHANGED hist
    \/ \E p \in DOMAIN req, conversationId \in ConvIds :
          userMessages(p, conversationId) /\ UNCHANGED hist
    \/ \E p \in DOMAIN req, username \in Users : conversationList(p, username)
          /\ UNCHANGED hist
    \/ \E p \in DOMAIN req, pair \in QueryPairs :
          messagesBetween(p, pair[1], pair[2]) /\ UNCHANGED hist
    \/ \E p \in DOMAIN req, pair \in QueryPairs :
          conversation(p, pair[1], pair[2]) /\ UNCHANGED hist
    \/ \E p \in DOMAIN req : respond(p) /\ UNCHANGED hist

Spec == Init /\ [][Next]_vars

\* ------------------------------------------------ concurrent requests
\* two requests in flight at once: Node runs one handler until its next
\* await, then any other
ConcProcs == {1, 2}

\* bodies of the concurrent create-message requests: no offer, unread
ThreadBodies == {MessageData(env, FALSE, FALSE) : env \in Envelopes}

InitThreads ==
    /\ messages = <<>>
    /\ conversations = <<>>
    /\ req = [p \in ConcProcs |-> Idle]
    /\ hist = NoHistory

NextThreads ==
    \/ \E p \in DOMAIN req, data \in ThreadBodies :
          messageCreateConversation(p, data) /\ UNCHANGED hist
    \/ \E p \in DOMAIN req, data \in ThreadBodies : messageAddMessage(p, data)
          /\ UNCHANGED hist
    \/ \E p \in DOMAIN req : addMessageCreate(p) /\ UNCHANGED hist
    \/ \E p \in DOMAIN req : addMessageEmit(p) /\ UNCHANGED hist
    \/ \E p \in DOMAIN req : respond(p) /\ UNCHANGED hist

SpecThreads == InitThreads /\ [][NextThreads]_vars

\* ------------------------------------------------ concurrent mark-as-read
\* two mark-as-read requests and one create-message request, each made once,
\* in flight together on a store that already holds messages.  A request
\* yields at its awaits only; the store applies each updateMany,
\* findOneAndUpdate and create it is sent as one write (an updateMany that
\* a create overtakes either sees the new document or does not, which are
\* the two orders of the two steps).
Markers == {1, 2}
Adder == 3

\* two senders of one receiver
MarkEnvelopes == { <<"c1", "carol", "alice">>, <<"c2", "Bob", "alice">> }
MarkIds == 1..MaxMsgs
MarkBodies == {MessageData(env, FALSE, FALSE) : env \in MarkEnvelopes}

\* a store the service can have built: n messages of the two senders, read
\* or not
StoreOf(n, f) ==
    [i \in 1..n |->
        [MessageData(f[i][1], f[i][2], FALSE) EXCEPT !._id = i,
                                                      !.createdAt = 1]]

InitMarks ==
    /\ \E n \in 0..MaxMsgs :
         \E f \in [1..n -> MarkEnvelopes \X BOOLEAN] : messages = StoreOf(n, f)
    /\ conversations = <<>>
    /\ req = [p \in Markers \cup {Adder} |-> Idle]
    /\ hist = [store0 |-> messages,
               calls |-> [p \in Markers \cup {Adder} |-> NoCall]]

Called(p, call) == hist' = [hist EXCEPT !.calls[p] = call]

\* PUT /mark-as-read, noted
callMarkSingleMessage(p, messageId) ==
    /\ markSingleMessage(p, messageId)
    /\ Called(p, [NoCall EXCEPT !.op = "markMessageAsRead",
                                !.messageId = messageId])

\* PUT /mark-multiple-as-read, noted
callMarkMultipleMessages(p, receiver, sender, messageId) ==
    /\ markMultipleMessages(p, receiver, sender, messageId)
    /\ Called(p, [NoCall EXCEPT !.op = "markManyMessagesAsRead",
                                !.messageId = messageId,
                                !.receiverUsername = receiver,
                                !.senderUsername = sender])

\* POST / with hasConversationId true, noted with the document it stored
callAddMessage(p, data) ==
    /\ messageAddMessage(p, data)
    /\ Called(p, IF Len(messages') > Len(messages)
                 THEN [NoCall EXCEPT !.op = "addMessage",
                                     !.document = messages'[Len(messages')]]
                 ELSE NoCall)

NextMarks ==
    \/ \E p \in Markers, messageId \in MarkIds :
          callMarkSingleMessage(p, messageId)
    \/ \E p \in Markers, env \in MarkEnvelopes, messageId \in MarkIds :
          callMarkMultipleMessages(p, env[3], env[2], messageId)
    \/ \E p \in Markers : markManyFindOne(p) /\ UNCHANGED hist
    \/ \E p \in Markers : emitUpdated(p) /\ UNCHANGED hist
    \/ \E data \in MarkBodies : callAddMessage(Adder, data)
    \/ addMessageEmit(Adder) /\ UNCHANGED hist

SpecMarks == InitMarks /\ [][NextMarks]_vars

\* ================================================================ claims
Stored(msgs, m) ==
    /\ m._id # 0
    /\ Exists(msgs, m._id)
    /\ msgs[m._id]._id = m._id
    /\ msgs[m._id].conversationId = m.conversationId

NonDecreasing(list) ==
    \A i \in 1..(Len(list) - 1) : list[i].createdAt <= list[i + 1].createdAt

Listed(msgs) ==
    \A i \in 1..Len(msgs) :
        LET list == getUserMessages(msgs, msgs[i].conversationId)
        IN /\ NonDecreasing(list)
           /\ \E j \in 1..Len(list) : list[j] = msgs[i]

Kept(msgs, msgs2) ==
    \A i \in 1..Len(msgs) :
        /\ i <= Len(msgs2)
        /\ msgs2[i]._id = msgs[i]._id
        /\ msgs2[i].conversationId = msgs[i].conversationId
        /\ msgs2[i].createdAt = msgs[i].createdAt

\* C1: a message that a completed addMessage stored is, after every later
\* step of any operation, still in the store under its conversationId, and
\* getUserMessages of that conversation contains it and is non-decreasing
\* by createdAt.
C1_AddedMessageStaysListed ==
    [][ /\ Kept(messages, messages')
        /\ Listed(messages')
        /\ \A p \in DOMAIN req :
              (req'[p].op = "message" /\ req'[p].status = "200")
                 => Stored(messages', req'[p].result)
      ]_vars

\* a GET /:conversationId answered with two messages, the one added second
\* listed first
C1_Witness ==
    \E p \in DOMAIN req :
        /\ req[p].op = "userMessages" /\ req[p].pc = "done"
        /\ Len(req[p].list) = 2
        /\ req[p].list[1]._id = 2 /\ req[p].list[2]._id = 1
        /\ req[p].list[1].createdAt < req[p].list[2].createdAt

C3_OneEmitOnePublishIfOffer ==
    \A p \in DOMAIN req :
        req[p].op = "message"
           => /\ Len(req[p].emitted) <= 1
              /\ Len(req[p].published) <= 1
              /\ (req[p].pc = "done" /\ req[p].message._id # 0)
                    => /\ Len(req[p].emitted) = 1
                       /\ req[p].emitted[1].event = "message received"
                       /\ req[p].emitted[1].message = req[p].message
                       /\ Stored(messages, req[p].emitted[1].message)
                       /\ Len(req[p].published)
                             = (IF req[p].message.hasOffer THEN 1 ELSE 0)
                       /\ \A i \in 1..Len(req[p].published) :
                             /\ req[p].published[i].exchange
                                   = "gigconnect-order-exchange"
                             /\ req[p].published[i].routingKey = "order-email"
                             /\ req[p].published[i].payload.template = "offer"

\* a finished addMessage of an offer message, from Bob: one publish, naming
\* the seller in lower case, and one emit
C3_Witness ==
    \E p \in DOMAIN req :
        /\ req[p].op = "message" /\ req[p].pc = "done"
        /\ req[p].message.hasOffer
        /\ Len(req[p].published) = 1
        /\ req[p].published[1].payload.sender = "Bob"
        /\ req[p].published[1].payload.sellerUsername = "bob"
        /\ Len(req[p].emitted) = 1

\* C4: a step of addMessage that publishes or emits finds the message already
\* in the store and leaves the store as it is; a request whose create failed
\* has published and emitted nothing; and no step of any operation removes a
\* stored message.
C4_WriteFirstNeverRolledBack ==
    [][ /\ Kept(messages, messages')
        /\ \A p \in DOMAIN req :
              /\ ( /\ req'[p].op = "message"
                   /\ \/ Len(req'[p].emitted) > Len(req[p].emitted)
                      \/ Len(req'[p].published) > Len(req[p].published) )
                    => /\ Stored(messages, req[p].message)
                       /\ messages' = messages
              /\ (req'[p].op = "message" /\ req'[p].error = "PersistenceError")
                    => /\ req'[p].emitted = <<>>
                       /\ req'[p].published = <<>>
      ]_vars

\* an addMessage about to emit after its publish failed, its message stored
C4_Witness ==
    \E p \in DOMAIN req :
        /\ req[p].op = "message" /\ req[p].pc = "emit"
        /\ Len(req[p].published) = 1 /\ ~req[p].published[1].sent
        /\ Stored(messages, req[p].message)

\* C5: a markManyMessagesAsRead whose updateMany matched no message fails
\* (NoOpError), returns no anchor message and makes no emit.
C5_ZeroMatchFails ==
    \A p \in DOMAIN req :
        (req[p].op = "markMultipleMessages" /\ req[p].matched = 0)
           => /\ req[p].emitted = <<>>
              /\ req[p].result._id = 0
              /\ req[p].pc = "done" => req[p].status = "error"

UsersMessages(msgs, u) ==
    {i \in 1..Len(msgs) :
        msgs[i].senderUsername = u \/ msgs[i].receiverUsername = u}

\* C6: for every user u, getUserConversationList(u) has exactly one record for
\* each conversationId of a message with u as sender or receiver and none for
\* any other, and that record is the one of u's messages in the conversation,
\* with the greatest createdAt among them.
C6_OneLatestRecordPerConversation ==
    \A u \in Users :
        LET list == getUserConversationList(messages, u)
            mine == UsersMessages(messages, u)
            convs == {messages[i].conversationId : i \in mine}
        IN /\ Len(list) = Cardinality(convs)
           /\ {list[k].conversationId : k \in 1..Len(list)} = convs
           /\ \A k \in 1..Len(list) :
                 /\ \E i \in mine : list[k] = Project(messages[i])
                 /\ \A i \in mine :
                       messages[i].conversationId = list[k].conversationId
                          => messages[i].createdAt <= list[k].createdAt

\* carol's list holds the one conversation she is in, c1, with her own
\* message, though a message she has no part in was stored in c1 afterwards
\* with a later createdAt
C6_Witness ==
    \E p \in DOMAIN req :
        /\ req[p].op = "conversationList" /\ req[p].pc = "done"
        /\ req[p].args.username = "carol"
        /\ Len(messages) = 2
        /\ messages[1].conversationId = "c1"
        /\ messages[1].senderUsername = "carol"
        /\ messages[2].conversationId = "c1"
        /\ messages[2].senderUsername = "alice"
        /\ messages[2].createdAt > messages[1].createdAt
        /\ Len(req[p].list) = 1
        /\ req[p].list[1]._id = 1

\* C7: an updateOffer for an id that no stored message has fails with
\* NotFoundError; the request is never answered with success.
C7_MissingIdFails ==
    \A p \in DOMAIN req :
        ( /\ req[p].op = "offer" /\ req[p].pc = "done"
          /\ ~Exists(messages, req[p].args.messageId) )
           => /\ req[p].status = "error"
              /\ req[p].error = "NotFoundError"

\* C8: an updateOffer with a flag name outside the allow-set is rejected with
\* ValidationError, and no stored message has an offer field outside the
\* allow-set.
C8_UnknownFlagRejected ==
    /\ \A p \in DOMAIN req :
          ( /\ req[p].op = "offer" /\ req[p].pc = "done"
            /\ req[p].args.type \notin AllowedFlags )
             => /\ req[p].status = "error"
                /\ req[p].error = "ValidationError"
    /\ \A i \in 1..Len(messages) : DOMAIN messages[i].offer \subseteq AllowedFlags

\* C9: a markMessageAsRead of an existing message leaves it read and returns
\* it; made again at once it returns the same record and leaves the store
\* as the first call left it; made on a message already read it changes
\* nothing; and the request is answered 200 each time.
C9_MarkReadIdempotent ==
    [][ \A p \in DOMAIN req :
          /\ ( /\ req[p].pc = "idle"
               /\ req'[p].op = "markSingleMessage"
               /\ Exists(messages, req'[p].args.messageId) )
                => LET id == req'[p].args.messageId
                   IN /\ messages'[id].isRead
                      /\ req'[p].message = messages'[id]
                      /\ markMessageAsReadStore(messages', id) = messages'
                      /\ markMessageAsRead(messages', id) = req'[p].message
                      /\ messages[id].isRead => messages' = messages
          /\ ( /\ req'[p].op = "markSingleMessage"
               /\ req'[p].pc = "done"
               /\ req[p].message._id # 0 )
                => /\ req'[p].status = "200"
                   /\ req'[p].result = req[p].message
                   /\ req'[p].result.isRead
      ]_vars

\* a mark-as-read answered 200 with the message, which is read in the store
C9_Witness ==
    \E p \in DOMAIN req :
        /\ req[p].op = "markSingleMessage" /\ req[p].pc = "done"
        /\ req[p].status = "200"
        /\ req[p].result._id = 1
        /\ req[p].result.isRead
        /\ messages[1].isRead
        /\ Len(messages) = 2 /\ ~messages[2].isRead

\* C10: an updateOffer(id, f) of an existing message sets offer.f of that
\* message to true and nothing else: its other offer fields keep their values,
\* an absent one stays absent, its other fields and every other message are
\* unchanged; the updated record is what it returns.
C10_UpdateOfferSetsOnlyTheFlag ==
    [][ \A p \in DOMAIN req :
          ( /\ req[p].pc = "idle"
            /\ req'[p].op = "offer"
            /\ Exists(messages, req'[p].args.messageId) )
             => LET id == req'[p].args.messageId
                    f == req'[p].args.type
                    old == messages[id]
                    new == messages'[id]
                IN /\ Len(messages') = Len(messages)
                   /\ \A j \in 1..Len(messages) :
                         j # id => messages'[j] = messages[j]
                   /\ DOMAIN new.offer = (DOMAIN old.offer) \cup {f}
                   /\ new.offer[f] = TRUE
                   /\ \A g \in (DOMAIN old.offer) \ {f} :
                         new.offer[g] = old.offer[g]
                   /\ [new EXCEPT !.offer = old.offer] = old
                   /\ req'[p].result = new
      ]_vars

\* an offer message whose admin flag was set while its accepted flag stayed
\* false, beside a second message
C10_Witness ==
    \E p \in DOMAIN req :
        /\ req[p].op = "offer" /\ req[p].pc = "done"
        /\ req[p].args.type = "admin"
        /\ req[p].result.hasOffer
        /\ DOMAIN req[p].result.offer = {"accepted", "admin"}
        /\ req[p].result.offer["accepted"] = FALSE
        /\ req[p].result.offer["admin"] = TRUE
        /\ Len(messages) = 2
\* ---------------------------------------------------------------- C11
OneRecordPerConversationId(convs) ==
    \A i, j \in 1..Len(convs) :
        convs[i].conversationId = convs[j].conversationId => i = j

\* a request that leaves the handler's first await in this step
Arrives(p) == req[p].pc = "idle" /\ req'[p].pc # "idle"

ApplyCall(store, call) ==
    CASE call.op = "markMessageAsRead" ->
            markMessageAsReadStore(store, call.messageId)
      [] call.op = "markManyMessagesAsRead" ->
            updateManyStore(store, call.receiverUsername, call.senderUsername)
      [] call.op = "addMessage" ->
            Create(store, call.document, call.document.createdAt)
      [] OTHER -> store

RECURSIVE RunInOrder(_, _)
RunInOrder(store, order) ==
    IF order = <<>> THEN store
    ELSE RunInOrder(ApplyCall(store, hist.calls[Head(order)]), Tail(order))

\* the sequential orders of the calls of the run
Orders ==
    {o \in [1..Cardinality(DOMAIN hist.calls) -> DOMAIN hist.calls] :
        \A i, j \in DOMAIN o : o[i] = o[j] => i = j}

\* no request is between two of its steps
Quiet == \A p \in DOMAIN req : req[p].pc \in {"idle", "done"}

\* message i is named by a mark-as-read call of the run: by its id, or by
\* its sender and receiver
Targeted(i) ==
    \E p \in DOMAIN hist.calls :
        LET c == hist.calls[p]
        IN \/ c.op = "markMessageAsRead" /\ c.messageId = i
           \/ /\ c.op = "markManyMessagesAsRead"
              /\ messages[i].senderUsername = c.senderUsername
              /\ messages[i].receiverUsername = c.receiverUsername

Added == {p \in DOMAIN hist.calls : hist.calls[p].op = "addMessage"}

\* message i as the run found it, or as the run's addMessage stored it
Origin(i) ==
    IF i <= Len(hist.store0) THEN hist.store0[i]
    ELSE hist.calls[CHOOSE p \in Added : hist.calls[p].document._id = i].document

\* C12: when two mark-as-read calls whose targets overlap and an addMessage
\* have run interleaved at their persistence steps, with no lock, the store
\* is the one some sequential order of the same calls produces; every
\* message of the starting store that a mark-as-read call targets has
\* isRead = true, and nothing else is altered: no message is lost, no field
\* but isRead differs, and isRead differs only on targeted messages.
C12_MarksNeedNoLock ==
    Quiet =>
        /\ messages \in {RunInOrder(hist.store0, o) : o \in Orders}
        /\ Len(messages) = Len(hist.store0) + Cardinality(Added)
        /\ \A i \in 1..Len(hist.store0) : Targeted(i) => messages[i].isRead
        /\ \A i \in 1..Len(messages) :
              /\ [messages[i] EXCEPT !.isRead = Origin(i).isRead] = Origin(i)
              /\ messages[i].isRead # Origin(i).isRead =>
                    messages[i].isRead /\ Targeted(i)

\* a markManyMessagesAsRead and a markMessageAsRead that target the same
\* unread message have both ended, an addMessage ran beside them, and a
\* message neither of them targets is still unread
C12_Witness ==
    /\ Quiet
    /\ hist.calls[1].op = "markManyMessagesAsRead"
    /\ hist.calls[2].op = "markMessageAsRead"
    /\ hist.calls[Adder].op = "addMessage"
    /\ \E i \in 1..Len(hist.store0) :
          /\ hist.calls[2].messageId = i
          /\ UnreadFromTo(hist.store0[i], hist.calls[1].senderUsername,
                          hist.calls[1].receiverUsername)
          /\ messages[i].isRead
    /\ \E j \in 1..Len(messages) : ~Targeted(j) /\ ~messages[j].isRead

\* ---------------------------------------------------------------- C13
\* an offer flag reads true when the field is there and true; a field that
\* is not there reads as not true
FlagSet(m, x) == x \in DOMAIN m.offer /\ m.offer[x]

\* the only ways one step may change a stored message
MonotonicChange(m, m2) ==
    /\ [m2 EXCEPT !.isRead = m.isRead, !.offer = m.offer] = m
    /\ m.isRead => m2.isRead
    /\ DOMAIN m.offer \subseteq DOMAIN m2.offer
    /\ \A x \in DOMAIN m2.offer :
          IF FlagSet(m, x) THEN m2.offer[x]
          ELSE \/ x \in DOMAIN m.offer /\ m2.offer[x] = m.offer[x]
               \/ m2.offer[x] = TRUE

====
